---- MODULE Spec2Model ----
(***************************************************************************)
(* Connectivity / provisioning core of discord-clock:                      *)
(*   - the settings store (save_setting / load_setting over NVS),          *)
(*   - the boot decision of app_main (station vs. access point),           *)
(*   - wifi_event_handler with its retry counter, start_ap, start_sta and  *)
(*     connection_success_callback,                                        *)
(*   - the POST /save handler of the configuration portal.                 *)
(* C strings are sequences of byte values (ASCII codes) without the        *)
(* terminating NUL.                                                        *)
(***************************************************************************)
EXTENDS Integers, Sequences, FiniteSets, TLC

VARIABLES
    pc,               \* "boot": app_main not run yet; "run": app_main returned
    nvs,              \* the NVS contents as read and written in this boot
    nvs_flash,        \* the NVS contents that survive a restart
    wifi_mode,        \* esp_wifi_set_mode: "NULL", "STA", "AP"
    sta_link,         \* the driver's station: "down", "start_pending", "connecting", "up"
    sta_config,       \* the wifi_config_t given to the driver by start_sta
    sta_retry_count,  \* static int sta_retry_count of wifi_event_handler
    sta_connected,    \* static bool sta_connected
    server,           \* static httpd_handle_t server (NULL_HANDLE or a handle)
    listeners,        \* the HTTP listeners that are running
    peak_listeners,   \* history: the most HTTP listeners that ran at once in this boot
    ap_clients,       \* clients joined to the access point
    http_pc,          \* the HTTP task: "idle", or "delay" inside vTaskDelay before esp_restart
    trace,            \* history: what the current boot did (events handled, calls made)
    boot_log,         \* history: the settings reads and result of the last app_main
    req,              \* history: the last POST /save request, its effects in order, and
                      \* whether it wrote beyond the end of its read buffer
    saved,            \* history: per key, the value of the last save_setting that returned
                      \* ESP_OK and whether there were one or more such calls
    resp,             \* history: the last GET request (handler, page template) and its
                      \* response
    voice_states,     \* the list at voice_states_head: records of user_id and channel_id
    voice_channel_user_count,  \* static int voice_channel_user_count
    current_animation,         \* static led_animation_type_t current_animation
    led_gpio          \* the level of LED_GPIO

vars == <<pc, nvs, nvs_flash, wifi_mode, sta_link, sta_config, sta_retry_count,
          sta_connected, server, listeners, peak_listeners, ap_clients, http_pc, trace,
          boot_log, req, saved, resp, voice_states, voice_channel_user_count,
          current_animation, led_gpio>>

-----------------------------------------------------------------------------
(* Program constants *)

\* Kconfig value; the spec's scenario uses max = 3
CONFIG_MAX_STA_RETRIES == 3

SSID_BUF == 32      \* char ssid[32] of app_main
PASS_BUF == 64      \* char pass[64] of app_main
KEY_WIDTH == 31     \* %31[^=]
VALUE_WIDTH == 127  \* %127s
SAVE_BUF == 512     \* char buf[512] of save_post_handler
DECODED_BUF == 128  \* char decoded[128] of save_post_handler

(* Bounds of the model *)
MaxEscLen == 3      \* length of the enumerated values submitted to url_decode
MaxGotIp == 2       \* got-address events delivered per boot
MaxApClients == 1   \* clients that join the access point

NULL_HANDLE == 0

-----------------------------------------------------------------------------
(* C strings *)

Printable ==
  <<" ", "!", "QUOTE", "#", "$", "%", "&", "'", "(", ")", "*", "+", ",", "-", ".", "/",
    "0", "1", "2", "3", "4", "5", "6", "7", "8", "9", ":", ";", "<", "=", ">", "?",
    "@", "A", "B", "C", "D", "E", "F", "G", "H", "I", "J", "K", "L", "M", "N", "O",
    "P", "Q", "R", "S", "T", "U", "V", "W", "X", "Y", "Z", "[", "BACKSLASH", "]", "^", "_",
    "BACKTICK", "a", "b", "c", "d", "e", "f", "g", "h", "i", "j", "k", "l", "m", "n", "o",
    "p", "q", "r", "s", "t", "u", "v", "w", "x", "y", "z", "{", "|", "}", "~">>

\* the ASCII code of a printable character
Ord(c) == 31 + CHOOSE i \in 1..Len(Printable) : Printable[i] = c

\* the C string literal spelled by a tuple of characters
Str(t) == [i \in 1..Len(t) |-> Ord(t[i])]

\* n copies of the character c
Rep(c, n) == LET b == Ord(c) IN [i \in 1..n |-> b]

\* the first n bytes of s
Take(s, n) == SubSeq(s, 1, IF n < Len(s) THEN n ELSE Len(s))

\* s without its first n bytes
Drop(s, n) == SubSeq(s, n + 1, Len(s))

Bytes == 0..255

\* the length of the run of bytes of the set cs in s that starts at index lo and
\* ends at index hi at the latest (computed by halves)
RECURSIVE Run(_, _, _, _)
Run(s, cs, lo, hi) ==
  IF lo > hi THEN 0
  ELSE IF lo = hi THEN (IF s[lo] \in cs THEN 1 ELSE 0)
  ELSE LET mid == (lo + hi) \div 2
           left == Run(s, cs, lo, mid)
       IN IF left = mid - lo + 1 THEN left + Run(s, cs, mid + 1, hi) ELSE left

\* the length of the longest run of bytes of the set cs in s that starts at index i
SpanLen(s, cs, i) == Run(s, cs, i, Len(s))

\* a byte buffer read as a C string: the bytes before the first NUL
CStr(s) == Take(s, SpanLen(s, Bytes \ {0}, 1))

\* the bytes isspace() accepts: space, \t, \n, \v, \f, \r
Space == {32} \cup (9..13)

isxdigit(b) == b \in 48..57 \/ b \in 65..70 \/ b \in 97..102

S_ssid == Str(<<"s", "s", "i", "d">>)
S_pass == Str(<<"p", "a", "s", "s">>)
S_MyNet == Str(<<"M", "y", "N", "e", "t">>)
S_Secret1 == Str(<<"S", "e", "c", "r", "e", "t", "1">>)
S_led_color == Str(<<"l", "e", "d", "_", "c", "o", "l", "o", "r">>)

-----------------------------------------------------------------------------
(* Settings store: NVS namespace "config" *)

ESP_OK == "ESP_OK"
ESP_FAIL == "ESP_FAIL"
ESP_ERR_NVS_NOT_FOUND == "ESP_ERR_NVS_NOT_FOUND"
ESP_ERR_NVS_INVALID_LENGTH == "ESP_ERR_NVS_INVALID_LENGTH"

\* outcomes of the storage backend during one save_setting / load_setting call: the
\* first storage call that fails, if any.  StoreIO has them all; SaveIO are those in
\* which nvs_commit, when it is reached, succeeds
StoreIO == {"ok", "open_fail", "set_fail", "commit_fail"}
SaveIO == StoreIO \ {"commit_fail"}
LoadIO == {"ok", "fail"}

\* a store: whether the namespace exists, and the string stored under each key
EmptyStore == [ns |-> FALSE, kv |-> <<>>]

HasKey(store, key) == key \in DOMAIN store.kv

nvs_set_strClobber(store, key, value) ==
  [store EXCEPT !.kv = [k \in DOMAIN store.kv \cup {key} |-> value]]

\* nvs_set_str on an open read-write handle
nvs_set_str(store, key, value) ==
  [store EXCEPT !.kv = [k \in DOMAIN store.kv \cup {key} |->
                          IF k = key THEN value ELSE store.kv[k]]]

\* nvs_get_str: the stored string must fit the buffer, terminator included
nvs_get_str(store, key, buf, max_len) ==
  IF ~HasKey(store, key) THEN [err |-> ESP_ERR_NVS_NOT_FOUND, value |-> buf]
  ELSE IF Len(store.kv[key]) + 1 > max_len
       THEN [err |-> ESP_ERR_NVS_INVALID_LENGTH, value |-> buf]
  ELSE [err |-> ESP_OK, value |-> store.kv[key]]

\* a call of the storage API and its result
Call(fn, err) == [fn |-> fn, err |-> err]

\* the handles a sequence of calls leaves open: opened by a successful nvs_open and
\* not yet given to nvs_close
OpenHandles(calls) ==
  Cardinality({i \in DOMAIN calls : calls[i] = Call("nvs_open", ESP_OK)})
    - Cardinality({i \in DOMAIN calls : calls[i].fn = "nvs_close"})

\* the result of the nvs_commit among the calls, "none" when it was not called
CommitResult(calls) ==
  IF \E i \in DOMAIN calls : calls[i].fn = "nvs_commit"
  THEN calls[CHOOSE i \in DOMAIN calls : calls[i].fn = "nvs_commit"].err
  ELSE "none"

save_settingNoCommit(st, key, value, io) ==
  IF io = "open_fail"
  THEN [nvs |-> st.nvs, flash |-> st.flash, err |-> ESP_FAIL,
        calls |-> <<Call("nvs_open", ESP_FAIL)>>]
  ELSE LET opened == [st.nvs EXCEPT !.ns = TRUE] IN
       IF io = "set_fail"
       THEN [nvs |-> opened, flash |-> st.flash, err |-> ESP_FAIL,
             calls |-> <<Call("nvs_open", ESP_OK), Call("nvs_set_str", ESP_FAIL),
                         Call("nvs_close", ESP_OK)>>]
       ELSE [nvs |-> nvs_set_str(opened, key, value), flash |-> st.flash, err |-> ESP_OK,
             calls |-> <<Call("nvs_open", ESP_OK), Call("nvs_set_str", ESP_OK),
                         Call("nvs_close", ESP_OK)>>]

\* save_setting(key, value) on st = [nvs, flash]: the stores after the call, its result
\* and the storage calls it made.  nvs_commit writes what is pending to the flash; when
\* it fails the flash keeps what it had.  The result of nvs_commit is not looked at:
\* err is the result of nvs_set_str.
save_setting(st, key, value, io) ==
  IF io = "open_fail"
  THEN [nvs |-> st.nvs, flash |-> st.flash, err |-> ESP_FAIL,
        calls |-> <<Call("nvs_open", ESP_FAIL)>>]
  ELSE LET opened == [st.nvs EXCEPT !.ns = TRUE] IN
       IF io = "set_fail"
       THEN [nvs |-> opened, flash |-> st.flash, err |-> ESP_FAIL,
             calls |-> <<Call("nvs_open", ESP_OK), Call("nvs_set_str", ESP_FAIL),
                         Call("nvs_close", ESP_OK)>>]
       ELSE LET written == nvs_set_str(opened, key, value)
                commit == IF io = "commit_fail" THEN ESP_FAIL ELSE ESP_OK
            IN [nvs |-> written,
                flash |-> IF commit = ESP_OK THEN written ELSE st.flash,
                err |-> ESP_OK,
                calls |-> <<Call("nvs_open", ESP_OK), Call("nvs_set_str", ESP_OK),
                            Call("nvs_commit", commit), Call("nvs_close", ESP_OK)>>]

\* load_setting(key, value, max_len): the result, the caller's buffer after the call
\* and the storage calls it made
load_setting(store, key, buf, max_len, io) ==
  IF io = "fail" \/ ~store.ns THEN
     [err |-> IF io = "fail" THEN ESP_FAIL ELSE ESP_ERR_NVS_NOT_FOUND, value |-> buf,
      calls |-> <<Call("nvs_open", IF io = "fail" THEN ESP_FAIL
                                   ELSE ESP_ERR_NVS_NOT_FOUND)>>]
  ELSE LET r == nvs_get_str(store, key, buf, max_len) IN
       [err |-> r.err, value |-> r.value,
        calls |-> <<Call("nvs_open", ESP_OK), Call("nvs_get_str", r.err),
                    Call("nvs_close", ESP_OK)>>]

-----------------------------------------------------------------------------
(* Form parsing of POST /save *)

AMP == 38   \* '&'
EQ == 61    \* '='
PCT == 37   \* '%'
PLUS == 43  \* '+'

Min(a, b) == IF a < b THEN a ELSE b

\* the tokens strtok(buf, "&") / strtok(NULL, "&") return, in order
RECURSIVE strtok(_)
strtok(s) ==
  LET r == Drop(s, SpanLen(s, {AMP}, 1))
      n == SpanLen(r, Bytes \ {AMP}, 1)
  IN IF n = 0 THEN <<>> ELSE <<Take(r, n)>> \o strtok(Drop(r, n + 1))

\* a variant that does not insist on the '=' after the key
sscanfNoEq(pair) ==
  LET klen == Min(SpanLen(pair, Bytes \ {EQ}, 1), KEY_WIDTH)
      rest == Drop(pair, klen + 1)
  IN IF klen = 0 THEN [n |-> 0, key |-> <<>>, value |-> <<>>]
     ELSE [n |-> 2, key |-> Take(pair, klen), value |-> Take(rest, VALUE_WIDTH)]

\* a variant whose value conversion takes as many characters as value[] has bytes
sscanfWide(pair) ==
  LET klen == Min(SpanLen(pair, Bytes \ {EQ}, 1), KEY_WIDTH)
      afterKey == Drop(pair, klen)
      afterEq == Drop(afterKey, 1)
      afterWs == Drop(afterEq, SpanLen(afterEq, Space, 1))
      vlen == Min(SpanLen(afterWs, Bytes \ Space, 1), VALUE_WIDTH + 1)
  IN IF klen = 0 THEN [n |-> 0, key |-> <<>>, value |-> <<>>]
     ELSE IF afterKey = <<>> \/ afterKey[1] # EQ \/ vlen = 0
          THEN [n |-> 1, key |-> Take(pair, klen), value |-> <<>>]
     ELSE [n |-> 2, key |-> Take(pair, klen), value |-> Take(afterWs, vlen)]

\* sscanf(pair, "%31[^=]=%127s", key, value): the number of conversions and what they stored
sscanf(pair) ==
  LET klen == Min(SpanLen(pair, Bytes \ {EQ}, 1), KEY_WIDTH)
      afterKey == Drop(pair, klen)
      afterEq == Drop(afterKey, 1)
      afterWs == Drop(afterEq, SpanLen(afterEq, Space, 1))
      vlen == Min(SpanLen(afterWs, Bytes \ Space, 1), VALUE_WIDTH)
  IN IF klen = 0 THEN [n |-> 0, key |-> <<>>, value |-> <<>>]
     ELSE IF afterKey = <<>> \/ afterKey[1] # EQ \/ vlen = 0
          THEN [n |-> 1, key |-> Take(pair, klen), value |-> <<>>]
     ELSE [n |-> 2, key |-> Take(pair, klen), value |-> Take(afterWs, vlen)]

\* a variant without the conversion of lower-case digits
hexvalUpperOnly(a) == IF a >= 65 THEN a - 65 + 10 ELSE a - 48

\* the value of a hexadecimal digit as url_decode computes it
hexval(a) ==
  LET up == IF a >= 97 THEN a - 32 ELSE a
  IN IF up >= 65 THEN up - 65 + 10 ELSE up - 48

\* one iteration of the while loop of url_decode; st.i is the index src points to,
\* st.dst the bytes written so far (no change once src points to the terminator)
decode_step(st) ==
  LET src == st.src
      i == st.i
  IN IF i > Len(src) THEN st
     ELSE IF src[i] = PCT /\ i + 2 <= Len(src)
             /\ isxdigit(src[i + 1]) /\ isxdigit(src[i + 2])
          THEN [st EXCEPT !.dst = Append(@, (16 * hexval(src[i + 1]) + hexval(src[i + 2])) % 256),
                          !.i = i + 3]
     ELSE IF src[i] = PLUS THEN [st EXCEPT !.dst = Append(@, 32), !.i = i + 1]
     ELSE [st EXCEPT !.dst = Append(@, src[i]), !.i = i + 1]

\* n iterations of the loop (the first half of them, then the rest)
RECURSIVE decode_loop(_, _)
decode_loop(st, n) ==
  IF n = 0 THEN st
  ELSE IF n = 1 THEN decode_step(st)
  ELSE LET half == decode_loop(st, n \div 2)
       IN IF half.i > Len(half.src) THEN half
          ELSE decode_loop(half, n - (n \div 2))

\* url_decode(dst, src): the bytes written to dst before the terminating NUL; the
\* loop ends after Len(src) iterations at the latest
url_decode(src) == decode_loop([src |-> src, i |-> 1, dst |-> <<>>], Len(src)).dst

\* a variant that takes only "ssid" for a credential key
IsCredentialKeySsidOnly(key) == key = S_ssid

\* strcmp(key, "ssid") == 0 || strcmp(key, "pass") == 0
IsCredentialKey(key) == key = S_ssid \/ key = S_pass

\* the pairs of a body that the loop of save_post_handler stores, in order: those
\* sscanf converts in full, with the key as scanned and the value url_decoded
RECURSIVE FormPairs(_, _)
FormPairs(pairs, i) ==
  IF i > Len(pairs) THEN <<>>
  ELSE LET p == sscanf(pairs[i]) IN
       IF p.n # 2 THEN FormPairs(pairs, i + 1)
       ELSE <<[key |-> p.key, value |-> CStr(url_decode(p.value))]>>
            \o FormPairs(pairs, i + 1)

RECURSIVE SavePairsStopOnError(_, _, _, _)
SavePairsStopOnError(pairs, ios, i, acc) ==
  IF i > Len(pairs) THEN acc
  ELSE LET p == pairs[i]
           r == save_setting(acc, p.key, p.value, ios[i])
           next == [nvs |-> r.nvs, flash |-> r.flash,
                    effects |-> Append(acc.effects,
                       [op |-> "save", key |-> p.key, value |-> p.value, err |-> r.err,
                        commit |-> CommitResult(r.calls)]),
                    reboot_needed |-> acc.reboot_needed \/ IsCredentialKey(p.key)]
       IN IF r.err # ESP_OK THEN next
          ELSE SavePairsStopOnError(pairs, ios, i + 1, next)

\* the loop of save_post_handler over the stored pairs, from pair i on; acc carries
\* the stores, the effects so far and reboot_needed
RECURSIVE SavePairs(_, _, _, _)
SavePairs(pairs, ios, i, acc) ==
  IF i > Len(pairs) THEN acc
  ELSE LET p == pairs[i]
           r == save_setting(acc, p.key, p.value, ios[i])
       IN SavePairs(pairs, ios, i + 1,
            [nvs |-> r.nvs, flash |-> r.flash,
             effects |-> Append(acc.effects,
                [op |-> "save", key |-> p.key, value |-> p.value, err |-> r.err,
                 commit |-> CommitResult(r.calls)]),
             reboot_needed |-> acc.reboot_needed \/ IsCredentialKey(p.key)])

-----------------------------------------------------------------------------
(* Wi-Fi station / access-point logic.  The operators below work on a record m *)
(* of the connectivity variables and return the record after the call.          *)

Ram == [wifi_mode |-> wifi_mode, sta_link |-> sta_link, sta_config |-> sta_config,
        sta_retry_count |-> sta_retry_count, sta_connected |-> sta_connected,
        server |-> server, listeners |-> listeners, peak_listeners |-> peak_listeners,
        trace |-> trace, voice_states |-> voice_states,
        voice_channel_user_count |-> voice_channel_user_count,
        current_animation |-> current_animation, led_gpio |-> led_gpio]

NoConfig == [ssid |-> <<>>, pass |-> <<>>]

\* the connectivity variables after a reset
RamInit == [wifi_mode |-> "NULL", sta_link |-> "down", sta_config |-> NoConfig,
            sta_retry_count |-> 0, sta_connected |-> FALSE,
            server |-> NULL_HANDLE, listeners |-> {}, peak_listeners |-> 0,
            trace |-> <<>>, voice_states |-> <<>>, voice_channel_user_count |-> 0,
            current_animation |-> "LED_ANIM_OFF", led_gpio |-> 0]

Log(m, what) == [m EXCEPT !.trace = Append(@, what)]

Count(seq, what) == Cardinality({i \in DOMAIN seq : seq[i] = what})

\* the handle httpd_start hands out: the lowest one not in use
NewHandle(running) ==
  CHOOSE h \in 1..(Cardinality(running) + 1) :
    h \notin running /\ \A g \in 1..(h - 1) : g \in running

\* config_portal_start(): starts a listener and returns its handle
config_portal_start(m) ==
  LET h == NewHandle(m.listeners)
      running == m.listeners \cup {h}
      n == Cardinality(running)
  IN [handle |-> h,
      m |-> [Log(m, "config_portal_start") EXCEPT
               !.listeners = running,
               !.peak_listeners = IF n > @ THEN n ELSE @]]

\* config_portal_stop(server)
config_portal_stop(m, h) ==
  IF h # NULL_HANDLE
  THEN [Log(m, "config_portal_stop") EXCEPT !.listeners = @ \ {h}]
  ELSE m

\* esp_wifi_connect(): the driver starts a connection attempt when it runs as a station
esp_wifi_connect(m) ==
  [Log(m, "esp_wifi_connect") EXCEPT
     !.sta_link = IF m.wifi_mode = "STA" THEN "connecting" ELSE @]

\* variants of the code with a plausible slip, used to test what the properties see
start_apNoStop(m) ==
  LET a == [Log(m, "start_ap") EXCEPT !.wifi_mode = "AP", !.sta_link = "down"]
      r == config_portal_start(a)
  IN [r.m EXCEPT !.server = r.handle]

start_apKeepMode(m) ==
  LET a == config_portal_stop(Log(m, "start_ap"), m.server)
      r == config_portal_start(a)
  IN [r.m EXCEPT !.server = r.handle]

\* start_ap(): stop a running portal, switch the radio to access point, start the portal
start_ap(m) ==
  LET a == config_portal_stop(Log(m, "start_ap"), m.server)
      b == [a EXCEPT !.wifi_mode = "AP", !.sta_link = "down"]
      r == config_portal_start(b)
  IN [r.m EXCEPT !.server = r.handle]

start_staMarksConnected(m, ssid, pass) ==
  [Log(m, "start_sta") EXCEPT
     !.sta_config = [ssid |-> Take(ssid, SSID_BUF), pass |-> Take(pass, PASS_BUF)],
     !.wifi_mode = "STA",
     !.sta_link = "start_pending",
     !.sta_connected = TRUE]

\* start_sta(ssid, pass): configure and start the station
start_sta(m, ssid, pass) ==
  [Log(m, "start_sta") EXCEPT
     !.sta_config = [ssid |-> Take(ssid, SSID_BUF), pass |-> Take(pass, PASS_BUF)],
     !.wifi_mode = "STA",
     !.sta_link = "start_pending"]

connection_success_callbackRestart(m) ==
  LET a == [Log(m, "connection_success_callback") EXCEPT !.led_gpio = 0]
      b == config_portal_stop(a, a.server)
      r == config_portal_start(b)
  IN [r.m EXCEPT !.server = r.handle]

\* connection_success_callback(): start the portal unless one is running
connection_success_callback(m) ==
  LET a == [Log(m, "connection_success_callback") EXCEPT !.led_gpio = 0] IN
  IF a.server = NULL_HANDLE
  THEN LET r == config_portal_start(a) IN [r.m EXCEPT !.server = r.handle]
  ELSE a

Events == {"WIFI_EVENT_STA_START", "WIFI_EVENT_STA_DISCONNECTED",
           "WIFI_EVENT_AP_STACONNECTED", "WIFI_EVENT_AP_STADISCONNECTED",
           "IP_EVENT_STA_GOT_IP"}

wifi_event_handlerOffByOne(m, ev) ==
  CASE ev = "WIFI_EVENT_STA_START" -> esp_wifi_connect(Log(m, ev))
    [] ev = "WIFI_EVENT_STA_DISCONNECTED" ->
         IF m.sta_retry_count < CONFIG_MAX_STA_RETRIES - 1
         THEN [esp_wifi_connect(Log(m, ev)) EXCEPT !.sta_retry_count = @ + 1]
         ELSE start_ap([Log(m, ev) EXCEPT !.sta_connected = FALSE])
    [] ev = "IP_EVENT_STA_GOT_IP" ->
         connection_success_callback([Log(m, ev) EXCEPT !.sta_connected = TRUE])
    [] OTHER -> m

wifi_event_handlerResetOnGotIp(m, ev) ==
  CASE ev = "WIFI_EVENT_STA_START" -> esp_wifi_connect(Log(m, ev))
    [] ev = "WIFI_EVENT_STA_DISCONNECTED" ->
         IF m.sta_retry_count < CONFIG_MAX_STA_RETRIES
         THEN [esp_wifi_connect(Log(m, ev)) EXCEPT !.sta_retry_count = @ + 1]
         ELSE start_ap([Log(m, ev) EXCEPT !.sta_connected = FALSE])
    [] ev = "IP_EVENT_STA_GOT_IP" ->
         connection_success_callback(
           [Log(m, ev) EXCEPT !.sta_connected = TRUE, !.sta_retry_count = 0])
    [] OTHER -> m

wifi_event_handlerOneMoreRetry(m, ev) ==
  CASE ev = "WIFI_EVENT_STA_START" -> esp_wifi_connect(Log(m, ev))
    [] ev = "WIFI_EVENT_STA_DISCONNECTED" ->
         IF m.sta_retry_count <= CONFIG_MAX_STA_RETRIES
         THEN [esp_wifi_connect(Log(m, ev)) EXCEPT !.sta_retry_count = @ + 1]
         ELSE start_ap([Log(m, ev) EXCEPT !.sta_connected = FALSE])
    [] ev = "IP_EVENT_STA_GOT_IP" ->
         connection_success_callback([Log(m, ev) EXCEPT !.sta_connected = TRUE])
    [] OTHER -> m

\* wifi_event_handler(arg, event_base, event_id, event_data)
wifi_event_handler(m, ev) ==
  CASE ev = "WIFI_EVENT_STA_START" -> esp_wifi_connect(Log(m, ev))
    [] ev = "WIFI_EVENT_STA_DISCONNECTED" ->
         IF m.sta_retry_count < CONFIG_MAX_STA_RETRIES
         THEN [esp_wifi_connect(Log(m, ev)) EXCEPT !.sta_retry_count = @ + 1]
         ELSE start_ap([Log(m, ev) EXCEPT !.sta_connected = FALSE])
    [] ev = "IP_EVENT_STA_GOT_IP" ->
         connection_success_callback([Log(m, ev) EXCEPT !.sta_connected = TRUE])
    [] OTHER -> m

\* the connectivity variables after a reset, as an initial condition
SetRamInit ==
  /\ wifi_mode = RamInit.wifi_mode
  /\ sta_link = RamInit.sta_link
  /\ sta_config = RamInit.sta_config
  /\ sta_retry_count = RamInit.sta_retry_count
  /\ sta_connected = RamInit.sta_connected
  /\ server = RamInit.server
  /\ listeners = RamInit.listeners
  /\ peak_listeners = RamInit.peak_listeners
  /\ trace = RamInit.trace
  /\ voice_states = RamInit.voice_states
  /\ voice_channel_user_count = RamInit.voice_channel_user_count
  /\ current_animation = RamInit.current_animation
  /\ led_gpio = RamInit.led_gpio

\* the connectivity variables become the record m
SetRam(m) ==
  /\ wifi_mode' = m.wifi_mode
  /\ sta_link' = m.sta_link
  /\ sta_config' = m.sta_config
  /\ sta_retry_count' = m.sta_retry_count
  /\ sta_connected' = m.sta_connected
  /\ server' = m.server
  /\ listeners' = m.listeners
  /\ peak_listeners' = m.peak_listeners
  /\ trace' = m.trace
  /\ voice_states' = m.voice_states
  /\ voice_channel_user_count' = m.voice_channel_user_count
  /\ current_animation' = m.current_animation
  /\ led_gpio' = m.led_gpio

-----------------------------------------------------------------------------
(* Boot *)

LED_COLOR_BUF == 8   \* char color_str[8] of led_animation_init

app_mainEitherCredential(store, io) ==
  LET rc == load_setting(store, S_led_color, <<>>, LED_COLOR_BUF, "ok")
      rs == load_setting(store, S_ssid, <<>>, SSID_BUF, io.ssid)
      rp == load_setting(store, S_pass, <<>>, PASS_BUF, io.pass)
      have_ssid == rs.err = ESP_OK
      have_pass == rp.err = ESP_OK
      m == [Log(RamInit, "app_main") EXCEPT !.current_animation = "LED_ANIM_SOLID"]
  IN [m |-> IF have_ssid \/ have_pass THEN start_sta(m, rs.value, rp.value) ELSE start_ap(m),
      log |-> [reads |-> <<[key |-> S_led_color, err |-> rc.err],
                           [key |-> S_ssid, err |-> rs.err],
                           [key |-> S_pass, err |-> rp.err]>>,
               have_ssid |-> have_ssid, have_pass |-> have_pass]]

\* app_main from a reset: led_animation_init reads led_color, then the credentials
\* are read and station or access-point mode is started; io is the backend's outcome
\* for each of the two credential reads
app_main(store, io) ==
  LET rc == load_setting(store, S_led_color, <<>>, LED_COLOR_BUF, "ok")
      rs == load_setting(store, S_ssid, <<>>, SSID_BUF, io.ssid)
      rp == load_setting(store, S_pass, <<>>, PASS_BUF, io.pass)
      have_ssid == rs.err = ESP_OK
      have_pass == rp.err = ESP_OK
      m == [Log(RamInit, "app_main") EXCEPT !.current_animation = "LED_ANIM_SOLID"]
  IN [m |-> IF have_ssid /\ have_pass THEN start_sta(m, rs.value, rp.value) ELSE start_ap(m),
      log |-> [reads |-> <<[key |-> S_led_color, err |-> rc.err],
                           [key |-> S_ssid, err |-> rs.err],
                           [key |-> S_pass, err |-> rp.err]>>,
               have_ssid |-> have_ssid, have_pass |-> have_pass]]

AppMain ==
  /\ pc = "boot"
  /\ \E io \in [{"ssid", "pass"} -> LoadIO] :
       LET r == app_main(nvs, io) IN
         /\ SetRam(r.m)
         /\ boot_log' = r.log
  /\ pc' = "run"
  /\ UNCHANGED <<nvs, nvs_flash, ap_clients, http_pc, req, saved, resp>>

-----------------------------------------------------------------------------
(* Network-stack events, delivered to wifi_event_handler by the event loop *)

Deliver(ev) == SetRam(wifi_event_handler(Ram, ev))

\* the station was started: the driver reports it once
StaStart ==
  /\ pc = "run" /\ sta_link = "start_pending"
  /\ Deliver("WIFI_EVENT_STA_START")
  /\ UNCHANGED <<pc, nvs, nvs_flash, ap_clients, http_pc, boot_log, req, saved, resp>>

\* a connection attempt failed, or an established connection was lost
StaDisconnected ==
  /\ pc = "run" /\ sta_link \in {"connecting", "up"}
  /\ Deliver("WIFI_EVENT_STA_DISCONNECTED")
  /\ UNCHANGED <<pc, nvs, nvs_flash, ap_clients, http_pc, boot_log, req, saved, resp>>

\* the station got an address: after a connection attempt, or again while connected
GotIp ==
  /\ pc = "run" /\ sta_link \in {"connecting", "up"}
  /\ Count(trace, "IP_EVENT_STA_GOT_IP") < MaxGotIp
  /\ SetRam([wifi_event_handler(Ram, "IP_EVENT_STA_GOT_IP") EXCEPT !.sta_link = "up"])
  /\ UNCHANGED <<pc, nvs, nvs_flash, ap_clients, http_pc, boot_log, req, saved, resp>>

ApStaConnected ==
  /\ pc = "run" /\ wifi_mode = "AP" /\ ap_clients < MaxApClients
  /\ Deliver("WIFI_EVENT_AP_STACONNECTED")
  /\ ap_clients' = ap_clients + 1
  /\ UNCHANGED <<pc, nvs, nvs_flash, http_pc, boot_log, req, saved, resp>>

ApStaDisconnected ==
  /\ pc = "run" /\ wifi_mode = "AP" /\ ap_clients > 0
  /\ Deliver("WIFI_EVENT_AP_STADISCONNECTED")
  /\ ap_clients' = ap_clients - 1
  /\ UNCHANGED <<pc, nvs, nvs_flash, http_pc, boot_log, req, saved, resp>>

-----------------------------------------------------------------------------
(* Voice presence: the bot registered by connection_success_callback delivers *)
(* the gateway's events to bot_event_handler                                  *)

USER_ID_BUF == 64      \* char user_id[64] of user_voice_state_t
CHANNEL_ID_BUF == 64   \* char channel_id[64] of user_voice_state_t

MaxVoiceRecords == 3   \* records in the list, and the most the counter is followed to

\* a const char* argument: NULL, or a pointer to the C string s
NullPtr == <<>>
Ptr(s) == <<s>>

\* strncpy(dst, src, sizeof(dst) - 1); dst[sizeof(dst) - 1] = 0
strncpy(src, size) == Take(src, size - 1)

\* the first record whose user_id compares equal to user_id, or 0
FindUser(list, user_id) ==
  LET found == {i \in DOMAIN list : list[i].user_id = user_id}
  IN IF found = {} THEN 0 ELSE CHOOSE i \in found : \A j \in found : i <= j

\* update_user_voice_state(user_id, channel_id); malloc_ok is the outcome of malloc
update_user_voice_state(m, user_id, channel_id, malloc_ok) ==
  LET i == FindUser(m.voice_states, user_id)
      channel == IF channel_id # NullPtr THEN strncpy(channel_id[1], CHANNEL_ID_BUF)
                 ELSE <<>>
  IN IF i # 0
     THEN LET cur == m.voice_states[i].channel_id
              count == IF channel_id = NullPtr /\ cur # <<>>
                       THEN m.voice_channel_user_count - 1
                       ELSE IF channel_id # NullPtr /\ cur = <<>>
                       THEN m.voice_channel_user_count + 1
                       ELSE m.voice_channel_user_count
          IN [m EXCEPT !.voice_channel_user_count = count,
                       !.voice_states[i].channel_id = channel]
     ELSE IF ~malloc_ok THEN m
     ELSE [m EXCEPT
             !.voice_channel_user_count = IF channel_id # NullPtr THEN @ + 1 ELSE @,
             !.voice_states = Append(@, [user_id |-> strncpy(user_id, USER_ID_BUF),
                                         channel_id |-> channel])]

\* bot_event_handler(handler_arg, base, event_id, event_data)
bot_event_handler(m, event_id, user_id, channel_id, malloc_ok) ==
  CASE event_id = "DISCORD_EVENT_VOICE_STATE_UPDATED" ->
         LET a == update_user_voice_state(m, user_id, channel_id, malloc_ok)
         IN IF a.voice_channel_user_count > 0
            THEN [a EXCEPT !.current_animation = "LED_ANIM_SOLID", !.led_gpio = 1]
            ELSE [a EXCEPT !.current_animation = "LED_ANIM_OFF", !.led_gpio = 0]
    [] OTHER -> m

U_alice == Str(<<"1", "0", "1">>)
U_bob == Str(<<"2", "0", "2">>)
U_long == Rep("9", USER_ID_BUF)
UserIds == {U_alice, U_bob, U_long}

CH_general == Str(<<"7", "0", "0">>)
CH_music == Str(<<"8", "0", "0">>)
ChannelIds == {NullPtr, Ptr(<<>>), Ptr(CH_general), Ptr(CH_music)}

\* the gateway reports a voice state to the bot that connection_success_callback
\* logged in
VoiceStateUpdated ==
  /\ pc = "run"
  /\ Count(trace, "connection_success_callback") > 0
  /\ \E user_id \in UserIds, channel_id \in ChannelIds, malloc_ok \in BOOLEAN :
       LET r == bot_event_handler(Ram, "DISCORD_EVENT_VOICE_STATE_UPDATED",
                                  user_id, channel_id, malloc_ok)
       IN /\ Len(r.voice_states) <= MaxVoiceRecords
          /\ r.voice_channel_user_count <= MaxVoiceRecords
          /\ SetRam(r)
  /\ UNCHANGED <<pc, nvs, nvs_flash, ap_clients, http_pc, boot_log, req, saved, resp>>

-----------------------------------------------------------------------------
(* POST /save *)

B_creds == Str(<<"s","s","i","d","=","M","y","N","e","t","&",
                 "p","a","s","s","=","S","e","c","r","e","t","1">>)
B_color == Str(<<"s","s","i","d","&","l","e","d","_","c","o","l","o","r","=",
                 "%","2","3","1","1","2","2","3","3">>)
B_long == Str(<<"p","a","s","s","=">>) \o Rep("x", PASS_BUF)
B_empty == <<>>

Bodies == {B_creds, B_color, B_long, B_empty}

\* bodies at the limit of the read buffer: one that fills buf with its terminator,
\* and one as long as buf
B_fits == S_led_color \o <<EQ>> \o Rep("x", SAVE_BUF - 11)
B_full == S_led_color \o <<EQ>> \o Rep("x", SAVE_BUF - 10)

\* bodies with a pair that has no '=', and the same bodies without that pair
B_bare_first == Str(<<"o","n","l","y","k","e","y","&","a","=","1","&","b","=","2">>)
B_bare_mid == Str(<<"a","=","1","&","o","n","l","y","k","e","y","&","b","=","2">>)
B_bare_last == Str(<<"a","=","1","&","o","n","l","y","k","e","y">>)
B_bare_only == Str(<<"o","n","l","y","k","e","y">>)
B_two == Str(<<"a","=","1","&","b","=","2">>)
B_one == Str(<<"a","=","1">>)

BareBodies == {B_bare_first, B_bare_mid, B_bare_last, B_bare_only, B_two, B_one}

\* pairs at and beyond the field widths of the sscanf format: a key of KEY_WIDTH + 1
\* characters, a value of VALUE_WIDTH + 1 characters, and both in one body
B_longkey == Str(<<"a","=","1","&">>) \o Rep("k", KEY_WIDTH + 1) \o Str(<<"=","v","&","b","=","2">>)
B_longval == Str(<<"v","=">>) \o Rep("y", VALUE_WIDTH + 1)
B_longboth == Rep("k", KEY_WIDTH + 1) \o Str(<<"=","v","&","w","=">>) \o Rep("y", VALUE_WIDTH + 1)

LongBodies == {B_longkey, B_longval, B_longboth}

\* values to decode: the spec's example, an empty value, and every string of up to
\* MaxEscLen characters over '%', '+', hexadecimal digits of both cases and 'x'
B_example == Str(<<"v","=","a","%","2","0","b","+","c">>)
B_emptyval == Str(<<"v","=">>)
EscAlphabet == {PCT, PLUS, Ord("0"), Ord("4"), Ord("a"), Ord("F"), Ord("x")}
EscStrings == UNION {[1..n -> EscAlphabet] : n \in 1..MaxEscLen}
DecodeBodies == {B_example, B_emptyval} \cup {Str(<<"v","=">>) \o v : v \in EscStrings}

\* the bodies of a request that exercises the form parsing
FormBodies == {B_creds, B_fits, B_full} \cup BareBodies \cup LongBodies \cup DecodeBodies

\* what the body buf holds after httpd_req_recv and buf[ret] = 0 parses to
Parse(body) == FormPairs(strtok(CStr(body)), 1)

\* Parse on the request bodies of the model, computed once
Form == [b \in Bodies \cup FormBodies |-> Parse(b)]

\* what a write beyond the end of a stack buffer can lead to: the handler goes on as
\* if the buffer were large enough, or the task is aborted and the device resets
UBOutcomes == {"continue", "crash"}

\* save_post_handler up to the response; a credential save then sits in vTaskDelay.
\* httpd_req_recv is given content_len as the buffer length: it stores ret bytes from
\* buf[0] on and buf[ret] = 0 follows, so a body of SAVE_BUF bytes or more is written
\* beyond buf; ub is what that undefined behaviour leads to
save_post_handler(st, body, recv_ok, ios, ub) ==
  LET ret == IF recv_ok THEN Len(body) ELSE -1
      oob == ret >= SAVE_BUF
  IN
  IF ret <= 0
  THEN [nvs |-> st.nvs, flash |-> st.flash, reboot_needed |-> FALSE,
        effects |-> <<[op |-> "httpd_resp_send_500"]>>, oob |-> FALSE, crashed |-> FALSE]
  ELSE IF oob /\ ub = "crash"
  THEN [nvs |-> st.nvs, flash |-> st.flash, reboot_needed |-> FALSE,
        effects |-> <<[op |-> "abort"]>>, oob |-> TRUE, crashed |-> TRUE]
  ELSE LET r == SavePairs(Form[body], ios, 1,
                   [nvs |-> st.nvs, flash |-> st.flash, effects |-> <<>>,
                    reboot_needed |-> FALSE])
       IN [nvs |-> r.nvs, flash |-> r.flash, reboot_needed |-> r.reboot_needed,
           effects |-> Append(r.effects,
             [op |-> IF r.reboot_needed THEN "send_rebooting" ELSE "send_redirect"]),
           oob |-> oob, crashed |-> FALSE]

\* the history of successful saves after the effects of a request, from effect i on
RECURSIVE Remember(_, _, _)
Remember(sv, effects, i) ==
  IF i > Len(effects) THEN sv
  ELSE LET e == effects[i] IN
       IF e.op = "save" /\ e.err = ESP_OK
       THEN Remember([k \in DOMAIN sv \cup {e.key} |->
                        IF k = e.key
                        THEN [value |-> e.value, again |-> e.key \in DOMAIN sv]
                        ELSE sv[k]],
                     effects, i + 1)
       ELSE Remember(sv, effects, i + 1)

\* the outcomes of the storage calls of one request: one per stored pair
RequestOutcomes(body, recv_ok, outcomes) ==
  IF recv_ok THEN [1..Len(Form[body]) -> outcomes] ELSE {<<>>}

RequestIO(body, recv_ok) == RequestOutcomes(body, recv_ok, SaveIO)

\* what can follow the request's write to buf: nothing special when the body fits
RequestUB(body, recv_ok) ==
  IF recv_ok /\ Len(body) >= SAVE_BUF THEN UBOutcomes ELSE {"continue"}

\* one POST /save request with a body from bodies, handled by the HTTP server task,
\* each of its save_setting calls with one of the outcomes
PostIO(bodies, outcomes) ==
  /\ pc = "run" /\ http_pc = "idle" /\ listeners # {}
  /\ \E body \in bodies, recv_ok \in BOOLEAN :
       \E ios \in RequestOutcomes(body, recv_ok, outcomes),
          ub \in RequestUB(body, recv_ok) :
         LET r == save_post_handler([nvs |-> nvs, flash |-> nvs_flash],
                                    body, recv_ok, ios, ub) IN
           /\ nvs_flash' = r.flash
           /\ req' = [body |-> body, recv_ok |-> recv_ok, effects |-> r.effects,
                      oob |-> r.oob]
           /\ saved' = Remember(saved, r.effects, 1)
           /\ IF r.crashed
              THEN /\ SetRam(RamInit)
                   /\ nvs' = nvs_flash
                   /\ pc' = "boot"
                   /\ http_pc' = "idle"
                   /\ ap_clients' = 0
              ELSE /\ nvs' = r.nvs
                   /\ http_pc' = IF r.reboot_needed THEN "delay" ELSE "idle"
                   /\ UNCHANGED <<pc, wifi_mode, sta_link, sta_config, sta_retry_count,
                                  sta_connected, server, listeners, peak_listeners,
                                  ap_clients, trace, voice_states,
                                  voice_channel_user_count, current_animation, led_gpio>>
  /\ UNCHANGED <<boot_log, resp>>

Post(bodies) == PostIO(bodies, SaveIO)

SavePost == Post(Bodies)

\* the delay of a credential save is over: esp_restart()
EspRestart ==
  /\ pc = "run" /\ http_pc = "delay"
  /\ req' = [req EXCEPT !.effects = @ \o <<[op |-> "vTaskDelay"], [op |-> "esp_restart"]>>]
  /\ SetRam(RamInit)
  /\ nvs' = nvs_flash
  /\ pc' = "boot"
  /\ http_pc' = "idle"
  /\ ap_clients' = 0
  /\ UNCHANGED <<nvs_flash, boot_log, saved, resp>>

-----------------------------------------------------------------------------
(* GET / and GET /settings.json *)

RENDER_BUF == 1024   \* char buf[1024] of index_get_handler
JSON_BUF == 256      \* char buf[256] of settings_get_handler
COLOR_BUF == 8       \* char led_color[8] of both handlers

DEFAULT_COLOR == Str(<<"#","2","3","A","5","5","A">>)
PLACEHOLDER == Str(<<"{","{","L","E","D","_","C","O","L","O","R","}","}">>)

\* strstr(haystack, needle): the index of the first occurrence, 0 when there is none
strstr(haystack, needle) ==
  LET at == {i \in 1..(Len(haystack) - Len(needle) + 1) :
               /\ haystack[i] = needle[1]
               /\ SubSeq(haystack, i, i + Len(needle) - 1) = needle}
  IN IF at = {} THEN 0 ELSE CHOOSE i \in at : \A j \in at : i <= j

\* page templates (index.html is embedded at build time): without a placeholder, with
\* one, with two; without a placeholder and as long as the render buffer allows, and
\* one byte longer; with a placeholder and a rendering that fills the buffer with its
\* terminator, and one byte more
T_plain == Str(<<"<","p",">","h","i","<","/","p",">">>)
T_one == Str(<<"<","b",">","{","{","L","E","D","_","C","O","L","O","R","}","}","<","/","b",">">>)
T_two == Str(<<"{","{","L","E","D","_","C","O","L","O","R","}","}",";","{","{","L","E","D","_","C","O","L","O","R","}","}">>)
T_max == Rep("x", RENDER_BUF - 1)
T_big == Rep("x", RENDER_BUF)
T_edge == Rep("x", RENDER_BUF - Len(DEFAULT_COLOR) - 1) \o PLACEHOLDER
T_over == Rep("x", RENDER_BUF - Len(DEFAULT_COLOR)) \o PLACEHOLDER

Templates == {T_plain, T_one, T_two, T_max, T_big, T_edge, T_over}

\* index_get_handler: the three memcpy calls copy prefix, colour and suffix with the
\* terminator into buf without looking at its size; a rendering longer than buf is
\* written beyond it, and ub is what that undefined behaviour leads to.  Without a
\* placeholder strncpy and buf[sizeof(buf)-1] = 0 keep the copy inside buf
index_get_handler(store, template, ub) ==
  LET led_color == load_setting(store, S_led_color, DEFAULT_COLOR, COLOR_BUF, "ok").value
      pos == strstr(template, PLACEHOLDER)
  IN IF pos # 0
     THEN LET prefix_len == pos - 1
              suffix == Drop(template, prefix_len + Len(PLACEHOLDER))
              page == Take(template, prefix_len) \o led_color \o suffix
              oob == Len(page) + 1 > RENDER_BUF
          IN IF oob /\ ub = "crash"
             THEN [status |-> "none", body |-> <<>>, oob |-> TRUE, crashed |-> TRUE]
             ELSE [status |-> "200", body |-> CStr(page), oob |-> oob, crashed |-> FALSE]
     ELSE [status |-> "200", body |-> CStr(Take(template, RENDER_BUF - 1)),
           oob |-> FALSE, crashed |-> FALSE]

\* the format of snprintf in settings_get_handler with its three strings filled in
SettingsJson(ssid, pass, led_color) ==
  Str(<<"{"," ","QUOTE","s","s","i","d","QUOTE",":"," ","QUOTE">>) \o ssid \o Str(<<"QUOTE",","," ","QUOTE","p","a","s","s","QUOTE",":"," ","QUOTE">>) \o pass
    \o Str(<<"QUOTE",","," ","QUOTE","l","e","d","_","c","o","l","o","r","QUOTE",":"," ","QUOTE">>) \o led_color \o Str(<<"QUOTE"," ","}">>)

\* a variant whose led_color buffer starts empty like the other two
settings_get_handlerNoDefault(store) ==
  LET ssid == load_setting(store, S_ssid, <<>>, SSID_BUF, "ok").value
      pass == load_setting(store, S_pass, <<>>, PASS_BUF, "ok").value
      led_color == load_setting(store, S_led_color, <<>>, COLOR_BUF, "ok").value
      text == SettingsJson(ssid, pass, led_color)
  IN [status |-> "200", body |-> Take(text, JSON_BUF - 1), oob |-> Len(text) >= JSON_BUF,
      crashed |-> FALSE]

\* settings_get_handler: ssid[32] and pass[64] start empty, led_color[8] starts as the
\* default colour; snprintf writes at most JSON_BUF bytes and returns the full length,
\* which is the number of bytes of buf that httpd_resp_send sends
settings_get_handler(store) ==
  LET ssid == load_setting(store, S_ssid, <<>>, SSID_BUF, "ok").value
      pass == load_setting(store, S_pass, <<>>, PASS_BUF, "ok").value
      led_color == load_setting(store, S_led_color, DEFAULT_COLOR, COLOR_BUF, "ok").value
      text == SettingsJson(ssid, pass, led_color)
  IN [status |-> "200", body |-> Take(text, JSON_BUF - 1), oob |-> Len(text) >= JSON_BUF,
      crashed |-> FALSE]

\* the HTTP server task answers a GET request; an abort resets the device
Answer(handler, template, r) ==
  /\ resp' = [handler |-> handler, template |-> template, status |-> r.status,
              body |-> r.body, oob |-> r.oob]
  /\ IF r.crashed
     THEN /\ SetRam(RamInit)
          /\ nvs' = nvs_flash
          /\ pc' = "boot"
          /\ ap_clients' = 0
     ELSE UNCHANGED <<pc, nvs, wifi_mode, sta_link, sta_config, sta_retry_count,
                      sta_connected, server, listeners, peak_listeners, ap_clients, trace,
                      voice_states, voice_channel_user_count, current_animation, led_gpio>>
  /\ UNCHANGED <<nvs_flash, http_pc, boot_log, req, saved>>

GetIndex ==
  /\ pc = "run" /\ http_pc = "idle" /\ listeners # {}
  /\ \E template \in Templates, ub \in UBOutcomes :
       Answer("index", template, index_get_handler(nvs, template, ub))

GetSettings ==
  /\ pc = "run" /\ http_pc = "idle" /\ listeners # {}
  /\ Answer("settings", <<>>, settings_get_handler(nvs))

-----------------------------------------------------------------------------

NoResponse == [handler |-> "none", template |-> <<>>, status |-> "none", body |-> <<>>,
               oob |-> FALSE]
NoRequest == [body |-> <<>>, recv_ok |-> FALSE, effects |-> <<>>, oob |-> FALSE]
NoBoot == [reads |-> <<>>, have_ssid |-> FALSE, have_pass |-> FALSE]

Init ==
  /\ pc = "boot"
  /\ nvs = EmptyStore
  /\ nvs_flash = EmptyStore
  /\ SetRamInit
  /\ ap_clients = 0
  /\ http_pc = "idle"
  /\ boot_log = NoBoot
  /\ req = NoRequest
  /\ saved = <<>>
  /\ resp = NoResponse

Next ==
  \/ AppMain
  \/ StaStart
  \/ StaDisconnected
  \/ GotIp
  \/ ApStaConnected
  \/ ApStaDisconnected
  \/ SavePost
  \/ EspRestart

Spec == Init /\ [][Next]_vars

\* the form parsing of POST /save: the first request after power-on, with a body of
\* FormBodies, on the access point that the boot without credentials brings up
FormPost == req = NoRequest /\ Post(FormBodies)

FormNext ==
  \/ AppMain
  \/ FormPost
  \/ EspRestart

FormSpec == Init /\ [][FormNext]_vars

\* the GET handlers of the portal, on a device that starts with settings stored by
\* earlier requests: led_color of 7 or of 9 characters, ssid, pass of 7 or of 64
S_color7 == Str(<<"#","1","1","2","2","3","3">>)
S_color9 == Str(<<"#","1","1","2","2","3","3","a","a">>)
Absent == <<0>>

StoreOf(led_color, ssid, pass) ==
  LET vals == (S_led_color :> led_color) @@ (S_ssid :> ssid) @@ (S_pass :> pass)
      keys == {k \in DOMAIN vals : vals[k] # Absent}
  IN [ns |-> keys # {}, kv |-> [k \in keys |-> vals[k]]]

PageStores ==
  {StoreOf(c, s, p) : c \in {Absent, S_color7, S_color9},
                      s \in {Absent, S_MyNet},
                      p \in {Absent, S_Secret1, Rep("x", PASS_BUF)}}

PageInit ==
  /\ pc = "boot"
  /\ nvs \in PageStores
  /\ nvs_flash = nvs
  /\ SetRamInit
  /\ ap_clients = 0
  /\ http_pc = "idle"
  /\ boot_log = NoBoot
  /\ req = NoRequest
  /\ saved = [k \in DOMAIN nvs.kv |-> [value |-> nvs.kv[k], again |-> FALSE]]
  /\ resp = NoResponse

\* the first GET request after power-on
PageIndex == resp = NoResponse /\ GetIndex
PageSettings == resp = NoResponse /\ GetSettings

PageNext ==
  \/ AppMain
  \/ StaStart
  \/ GotIp
  \/ PageIndex
  \/ PageSettings

PageSpec == PageInit /\ [][PageNext]_vars

\* the settings store with every outcome of the storage backend, a failing nvs_commit
\* included: requests to the portal of the access point, and the restarts they cause
StorePost == PostIO(Bodies, StoreIO)

StoreNext ==
  \/ AppMain
  \/ StorePost
  \/ EspRestart

StoreSpec == Init /\ [][StoreNext]_vars

\* the first POST /save after power-on, with every outcome of the storage backend, on
\* a device that starts with settings stored by earlier requests
WritePost == req = NoRequest /\ PostIO(Bodies, StoreIO)

WriteNext ==
  \/ AppMain
  \/ StaStart
  \/ GotIp
  \/ WritePost
  \/ EspRestart

WriteSpec == PageInit /\ [][WriteNext]_vars

\* the network stack answers: it reports the started station, and it ends every
\* connection attempt with a got-address or a station-disconnected event
ConnectAnswered == sta_link = "connecting" /\ (StaDisconnected \/ GotIp)

\* the boots of a device on which one POST /save request is made after power-on: the
\* boot without credentials, and the boot that follows the restart of the request
FirstPost == req = NoRequest /\ SavePost

LiveNext ==
  \/ AppMain
  \/ StaStart
  \/ StaDisconnected
  \/ GotIp
  \/ ApStaConnected
  \/ ApStaDisconnected
  \/ FirstPost
  \/ EspRestart

\* a provisioned device that joins its network and follows the voice states
VoiceNext ==
  \/ AppMain
  \/ StaStart
  \/ GotIp
  \/ VoiceStateUpdated

VoiceSpec == PageInit /\ [][VoiceNext]_vars

LiveSpec ==
  /\ Init
  /\ [][LiveNext]_vars
  /\ WF_vars(StaStart)
  /\ WF_vars(ConnectAnswered)

-----------------------------------------------------------------------------
(* What the trace of the current boot says *)

DISC == "WIFI_EVENT_STA_DISCONNECTED"
GOT_IP == "IP_EVENT_STA_GOT_IP"

Connects(t) == Count(t, "esp_wifi_connect")
ApStarts(t) == Count(t, "start_ap")
Discs(t) == Count(t, DISC)
GotIps(t) == Count(t, GOT_IP)
Callbacks(t) == Count(t, "connection_success_callback")

\* the listeners running after the first i entries of the trace
RunningAt(t, i) ==
  Count(Take(t, i), "config_portal_start") - Count(Take(t, i), "config_portal_stop")

\* the states of the connectivity state machine the trace went through, in order
RECURSIVE Path(_, _)
Path(t, i) ==
  IF i > Len(t) THEN <<>>
  ELSE (CASE t[i] = "start_sta" -> <<"StationStarting">>
          [] t[i] = "esp_wifi_connect" /\ t[i - 1] = "WIFI_EVENT_STA_START" ->
               <<"StationConnecting">>
          [] t[i] = "esp_wifi_connect" /\ t[i - 1] = DISC -> <<"StationRetrying">>
          [] t[i] = "start_ap" -> <<"FallbackPending">>
          [] t[i] = GOT_IP -> <<"StationConnected">>
          [] OTHER -> <<>>) \o Path(t, i + 1)

\* the retry policy on a step that handles a station-disconnected event
RetryStep ==
  IF sta_retry_count < CONFIG_MAX_STA_RETRIES
  THEN /\ Connects(trace') = Connects(trace) + 1
       /\ sta_retry_count' = sta_retry_count + 1
       /\ ApStarts(trace') = ApStarts(trace)
       /\ wifi_mode' = wifi_mode
  ELSE /\ sta_retry_count = CONFIG_MAX_STA_RETRIES
       /\ ApStarts(trace') = ApStarts(trace) + 1
       /\ wifi_mode' = "AP"
       /\ Connects(trace') = Connects(trace)
       /\ sta_retry_count' = sta_retry_count

-----------------------------------------------------------------------------
(* C1: handling a station-disconnected event with the retry counter below     *)
(* CONFIG_MAX_STA_RETRIES issues exactly one connect request and adds one to   *)
(* the counter without starting access-point mode; with the counter at the     *)
(* maximum it calls start_ap, issues no connect request and leaves the counter *)
C1_RetryPolicy ==
  [][Discs(trace') = Discs(trace) + 1 => RetryStep]_vars

\* every retry count 0..max has met a disconnect, the last one falling back
C1_Witness ==
  /\ Discs(trace) = CONFIG_MAX_STA_RETRIES + 1
  /\ Connects(trace) = CONFIG_MAX_STA_RETRIES + 1
  /\ ApStarts(trace) = 1
  /\ sta_retry_count = CONFIG_MAX_STA_RETRIES

-----------------------------------------------------------------------------
StationBoot == Len(trace) >= 2 /\ trace[2] = "start_sta"

Retrying(n) == [i \in 1..n |-> "StationRetrying"]

\* C2 as stated: after a boot with stored credentials and a maximum of 3, the
\* third consecutive station-disconnected event (no got-address event) is the one
\* that enters access-point fallback
C2_ThirdDisconnectFallsBack ==
  (CONFIG_MAX_STA_RETRIES = 3 /\ StationBoot /\ GotIps(trace) = 0 /\ Discs(trace) = 3)
    => /\ Path(trace, 1) = <<"StationStarting", "StationConnecting">> \o Retrying(2)
                             \o <<"FallbackPending">>
       /\ wifi_mode = "AP"

(* C2, amended: after a boot with stored credentials, with no got-address      *)
(* event, each of the first CONFIG_MAX_STA_RETRIES station-disconnected events *)
(* enters StationRetrying and the next one (the fourth for a maximum of 3)     *)
(* enters FallbackPending; the retry counter is at the maximum just before it  *)
C2_FallbackAfterMaxRetries ==
  (StationBoot /\ GotIps(trace) = 0 /\ Connects(trace) > 0) =>
     LET n == Discs(trace) IN
     IF n <= CONFIG_MAX_STA_RETRIES
     THEN /\ Path(trace, 1) = <<"StationStarting", "StationConnecting">> \o Retrying(n)
          /\ sta_retry_count = n
          /\ wifi_mode = "STA"
     ELSE /\ n = CONFIG_MAX_STA_RETRIES + 1
          /\ Path(trace, 1) = <<"StationStarting", "StationConnecting">>
                                \o Retrying(CONFIG_MAX_STA_RETRIES) \o <<"FallbackPending">>
          /\ sta_retry_count = CONFIG_MAX_STA_RETRIES
          /\ wifi_mode = "AP"

C2_Witness ==
  /\ StationBoot /\ GotIps(trace) = 0
  /\ Discs(trace) = CONFIG_MAX_STA_RETRIES + 1
  /\ wifi_mode = "AP"

-----------------------------------------------------------------------------
-----------------------------------------------------------------------------
\* C4 as stated: within one boot connection_success_callback is invoked at most
\* once, and never before a got-address event was received
C4_CallbackAtMostOnce ==
  /\ Callbacks(trace) <= 1
  /\ Callbacks(trace) > 0 => GotIps(trace) > 0

-----------------------------------------------------------------------------
\* the result the last app_main got when it read key
ReadErr(key) ==
  LET i == CHOOSE j \in DOMAIN boot_log.reads : boot_log.reads[j].key = key
  IN boot_log.reads[i].err

Reads(log, key) == Cardinality({j \in DOMAIN log.reads : log.reads[j].key = key})

\* the stored string under key exists and fits a buffer of max_len bytes
Fits(store, key, max_len) ==
  store.ns /\ key \in DOMAIN store.kv /\ Len(store.kv[key]) + 1 <= max_len

(* C5: app_main starts station mode if and only if both credential reads       *)
(* returned ESP_OK, which needs both values stored and fitting their buffers;  *)
(* in every other case it starts access-point mode; each credential is read    *)
(* once and the boot writes nothing to the settings store                      *)
C5_BootDecision ==
  [][(pc = "boot" /\ pc' = "run") =>
       LET sta == Count(trace', "start_sta") = 1
           ap == Count(trace', "start_ap") = 1
       IN /\ sta <=> (ReadErr(S_ssid)' = ESP_OK /\ ReadErr(S_pass)' = ESP_OK)
          /\ ap <=> ~sta
          /\ sta => wifi_mode' = "STA"
          /\ ap => wifi_mode' = "AP"
          /\ sta => Fits(nvs, S_ssid, SSID_BUF) /\ Fits(nvs, S_pass, PASS_BUF)
          /\ ~sta => \/ ~Fits(nvs, S_ssid, SSID_BUF) \/ ~Fits(nvs, S_pass, PASS_BUF)
                     \/ ReadErr(S_ssid)' = ESP_FAIL \/ ReadErr(S_pass)' = ESP_FAIL
          /\ Reads(boot_log', S_ssid) = 1 /\ Reads(boot_log', S_pass) = 1
          /\ nvs' = nvs /\ nvs_flash' = nvs_flash]_vars

\* a boot that found the ssid but a passphrase too long for its buffer: access point
C5_Witness ==
  /\ pc = "run"
  /\ ReadErr(S_ssid) = ESP_OK
  /\ ReadErr(S_pass) = ESP_ERR_NVS_INVALID_LENGTH
  /\ wifi_mode = "AP"
  /\ ApStarts(trace) = 1

-----------------------------------------------------------------------------
(* C6: once start_ap has run, the device is in access-point mode and stays in  *)
(* it for the rest of the boot: no later event issues a connect request or     *)
(* starts the station, and only a restart leaves the mode                      *)
C6_FallbackOneWay ==
  [][ApStarts(trace) > 0 =>
       /\ wifi_mode = "AP"
       /\ (wifi_mode' # "AP" => pc' = "boot")
       /\ pc' = "run" =>
            /\ Connects(trace') = Connects(trace)
            /\ Count(trace', "start_sta") = Count(trace, "start_sta")
            /\ sta_link' = "down"
            /\ sta_config' = sta_config]_vars

\* after the fallback of a station boot, an access-point client event was handled
C6_Witness ==
  /\ StationBoot
  /\ ApStarts(trace) = 1
  /\ wifi_mode = "AP"
  /\ ap_clients > 0

-----------------------------------------------------------------------------
\* a step that issues no connect request, keeps the retry counter and the Wi-Fi mode
Quiet ==
  /\ Connects(trace') = Connects(trace)
  /\ sta_retry_count' = sta_retry_count
  /\ ApStarts(trace') = ApStarts(trace)
  /\ wifi_mode' = wifi_mode

-----------------------------------------------------------------------------
(* What the history of the last POST /save says *)

LastOp(effects) == IF effects = <<>> THEN "none" ELSE effects[Len(effects)].op

\* the first n effects are calls of save_setting with exactly these pairs, in order
SavesFirst(effects, pairs) ==
  /\ Len(effects) >= Len(pairs)
  /\ \A i \in DOMAIN pairs :
       /\ effects[i].op = "save"
       /\ effects[i].key = pairs[i].key
       /\ effects[i].value = pairs[i].value

\* every save_setting of the request returned ESP_OK, and no nvs_commit failed
AllSavesOk(effects) ==
  \A i \in DOMAIN effects :
    effects[i].op = "save" => effects[i].err = ESP_OK /\ effects[i].commit # ESP_FAIL

\* a pair the handler parsed has key exactly "ssid" or "pass"
CredentialPair(pairs) ==
  \E i \in DOMAIN pairs : pairs[i].key = S_ssid \/ pairs[i].key = S_pass

\* the effects of a request that stored pairs and then answered with op, and whether
\* it is waiting to restart or has restarted
Answered(pairs, op) ==
  LET e == req.effects
      n == Len(pairs)
  IN /\ SavesFirst(e, pairs)
     /\ Len(e) >= n + 1
     /\ e[n + 1].op = op

RestartPendingOrDone(pairs) ==
  LET e == req.effects
      n == Len(pairs)
  IN \/ http_pc = "delay" /\ Len(e) = n + 1
     \/ /\ Len(e) = n + 3
        /\ e[n + 2].op = "vTaskDelay"
        /\ e[n + 3].op = "esp_restart"

NoRestart(pairs) == Len(req.effects) = Len(pairs) + 1 /\ http_pc = "idle"

\* C8 as stated: POST /save restarts if and only if a parsed pair has key ssid or
\* pass, after storing every pair and sending the confirmation; when no parsed key
\* is ssid or pass it sends the redirect and does not restart
C8_RestartIffCredentialKey ==
  req # NoRequest =>
    LET pairs == IF req.recv_ok THEN Form[req.body] ELSE <<>> IN
    IF CredentialPair(pairs)
    THEN Answered(pairs, "send_rebooting") /\ RestartPendingOrDone(pairs)
    ELSE Answered(pairs, "send_redirect") /\ NoRestart(pairs)

\* the request body arrived: httpd_req_recv returned more than 0 bytes
Received == req.recv_ok /\ Len(req.body) > 0

(* C8, amended: a POST /save whose body was read (httpd_req_recv returned more *)
(* than 0) restarts if and only if a parsed pair has key ssid or pass: it then *)
(* passes every parsed pair to save_setting, sends the confirmation, waits and *)
(* restarts, and nothing but the restart ends the wait; with no such key it    *)
(* sends the redirect and does not restart.  A request whose body is empty or  *)
(* cannot be read is answered with a server error, stores nothing and does not *)
(* restart.  The device restarts only from that wait                           *)
C8_RestartIffCredentialKeyReceived ==
  /\ [](req # NoRequest =>
          IF ~Received
          THEN req.effects = <<[op |-> "httpd_resp_send_500"]>> /\ http_pc = "idle"
          ELSE IF CredentialPair(Form[req.body])
          THEN /\ Answered(Form[req.body], "send_rebooting")
               /\ RestartPendingOrDone(Form[req.body])
          ELSE /\ Answered(Form[req.body], "send_redirect")
               /\ NoRestart(Form[req.body]))
  /\ [][/\ http_pc = "delay" =>
             \/ http_pc' = "delay" /\ req' = req /\ nvs' = nvs
             \/ pc' = "boot" /\ LastOp(req'.effects) = "esp_restart"
        /\ (pc = "run" /\ pc' = "boot") => http_pc = "delay"]_vars

\* a save of the passphrase alone restarted the device, which is running again
C8_Witness ==
  /\ pc = "run"
  /\ req.body = B_long
  /\ LastOp(req.effects) = "esp_restart"

-----------------------------------------------------------------------------

\* the last request was ssid=MyNet&pass=Secret1, read in full, with every write done
ProvisioningRequest(r) ==
  r.body = B_creds /\ r.recv_ok /\ AllSavesOk(r.effects)

(* C9: a boot that finds neither ssid nor pass runs the access point with the  *)
(* portal; POST /save with ssid=MyNet&pass=Secret1, when the storage backend   *)
(* does not fail, stores exactly those two values durably, answers with the    *)
(* pending-restart confirmation and waits to restart; the boot after that      *)
(* restart reads both credentials and starts the station with ssid MyNet and   *)
(* passphrase Secret1                                                          *)
C9_Provisioning ==
  /\ []((pc = "run" /\ ReadErr(S_ssid) = ESP_ERR_NVS_NOT_FOUND
                    /\ ReadErr(S_pass) = ESP_ERR_NVS_NOT_FOUND) =>
          /\ wifi_mode = "AP"
          /\ server # NULL_HANDLE
          /\ listeners = {server})
  /\ [][/\ (req' # req /\ pc' = "run" /\ ProvisioningRequest(req')) =>
             /\ Fits(nvs', S_ssid, SSID_BUF) /\ nvs'.kv[S_ssid] = S_MyNet
             /\ Fits(nvs', S_pass, PASS_BUF) /\ nvs'.kv[S_pass] = S_Secret1
             /\ nvs_flash' = nvs'
             /\ Len(req'.effects) = 3
             /\ LastOp(req'.effects) = "send_rebooting"
             /\ http_pc' = "delay"
        /\ (/\ pc = "boot" /\ pc' = "run"
            /\ ProvisioningRequest(req) /\ LastOp(req.effects) = "esp_restart"
            /\ ReadErr(S_ssid)' # ESP_FAIL /\ ReadErr(S_pass)' # ESP_FAIL) =>
             /\ wifi_mode' = "STA"
             /\ sta_link' = "start_pending"
             /\ sta_config' = [ssid |-> S_MyNet, pass |-> S_Secret1]
             /\ Path(trace', 1) = <<"StationStarting">>]_vars

\* the device was provisioned through the portal and now runs as a station
C9_Witness ==
  /\ pc = "run"
  /\ ProvisioningRequest(req) /\ LastOp(req.effects) = "esp_restart"
  /\ wifi_mode = "STA"
  /\ sta_config = [ssid |-> S_MyNet, pass |-> S_Secret1]

-----------------------------------------------------------------------------
S_other == Str(<<"o", "n", "l", "y", "k", "e", "y">>)

SettingKeys == {S_ssid, S_pass, S_led_color, S_other}

\* what load_setting returns for key from a store when the buffer is large enough
\* and the backend does not fail
Load(store, key) == load_setting(store, key, <<>>, VALUE_WIDTH + 1, "ok")

(* C10: load_setting of a key that no save_setting wrote successfully fails    *)
(* with ESP_ERR_NVS_NOT_FOUND; of a key written once or more it returns ESP_OK *)
(* and the value of the last successful save_setting of that key, whatever was *)
(* written to other keys, both in this boot and from what a restart keeps      *)
C10_RoundTrip ==
  \A key \in SettingKeys : \A store \in {nvs, nvs_flash} :
    IF key \in DOMAIN saved
    THEN Load(store, key).err = ESP_OK /\ Load(store, key).value = saved[key].value
    ELSE /\ Load(store, key).err = ESP_ERR_NVS_NOT_FOUND
         /\ Load(store, key).value = <<>>

\* after a restart: pass was written more than once and reads as the last value,
\* ssid and led_color still read as written, and one key was never written
C10_Witness ==
  /\ pc = "run" /\ LastOp(req.effects) = "esp_restart"
  /\ S_pass \in DOMAIN saved /\ saved[S_pass].again
  /\ saved[S_pass].value = Rep("x", PASS_BUF)
  /\ S_ssid \in DOMAIN saved /\ S_led_color \in DOMAIN saved
  /\ S_other \notin DOMAIN saved

-----------------------------------------------------------------------------
\* C11 as stated: a POST /save whose body is as long as the read buffer (512 bytes)
\* or longer is answered with a server error: nothing is written at or beyond the end
\* of the buffer, no setting is stored, no restart happens and the process runs on
C11_OversizeBodyFailsRequest ==
  (req.recv_ok /\ Len(req.body) >= SAVE_BUF) =>
     /\ ~req.oob
     /\ req.effects = <<[op |-> "httpd_resp_send_500"]>>
     /\ saved = <<>>
     /\ pc = "run" /\ http_pc = "idle"

-----------------------------------------------------------------------------
\* the '&'-separated pairs of a body
Tokens(body) == strtok(CStr(body))

Bare(pair) == \A i \in DOMAIN pair : pair[i] # EQ

HasBare(body) == \E i \in DOMAIN Tokens(body) : Bare(Tokens(body)[i])

\* the pairs of ps joined with '&' again
RECURSIVE Join(_, _)
Join(ps, i) ==
  IF i > Len(ps) THEN <<>>
  ELSE IF i = Len(ps) THEN ps[i]
  ELSE ps[i] \o <<AMP>> \o Join(ps, i + 1)

\* the body without its pairs that have no '='
DropBare(body) == Join(SelectSeq(Tokens(body), LAMBDA p : ~Bare(p)), 1)

\* the keys and values passed to save_setting by the last request, in order
SavedPairs(effects) ==
  LET saves == SelectSeq(effects, LAMBDA e : e.op = "save")
  IN [i \in DOMAIN saves |-> [key |-> saves[i].key, value |-> saves[i].value]]

(* C12: a pair without '=' in the body of POST /save is skipped in silence: it  *)
(* is not passed to save_setting and the request is not answered with an error, *)
(* and the stores, the calls of save_setting with their results, the response   *)
(* and the restart decision are those of the same request without that pair     *)
C12_BarePairSkipped ==
  [][(req' # req /\ req'.recv_ok /\ HasBare(req'.body)) =>
       LET without == DropBare(req'.body) IN
       /\ \A i \in DOMAIN req'.effects :
            /\ req'.effects[i].op # "httpd_resp_send_500"
            /\ req'.effects[i].op = "save" => \A j \in DOMAIN Tokens(req'.body) :
                  Bare(Tokens(req'.body)[j]) =>
                    req'.effects[i].key # Take(Tokens(req'.body)[j], KEY_WIDTH)
       /\ IF without = <<>>
          THEN /\ req'.effects = <<[op |-> "send_redirect"]>>
               /\ nvs' = nvs /\ nvs_flash' = nvs_flash /\ http_pc' = "idle"
          ELSE /\ without \in FormBodies
               /\ SavedPairs(req'.effects) = Form[without]
               /\ \E ios \in RequestIO(without, TRUE) :
                    LET r == save_post_handler([nvs |-> nvs, flash |-> nvs_flash],
                                               without, TRUE, ios, "continue")
                    IN /\ nvs' = r.nvs
                       /\ nvs_flash' = r.flash
                       /\ req'.effects = r.effects
                       /\ http_pc' = IF r.reboot_needed THEN "delay" ELSE "idle"]_vars

\* a=1&onlykey&b=2 was handled: a and b were stored, onlykey was not
C12_Witness ==
  /\ req.body = B_bare_mid /\ req.recv_ok
  /\ Len(req.effects) = 3
  /\ AllSavesOk(req.effects)
  /\ DOMAIN nvs.kv = {<<Ord("a")>>, <<Ord("b")>>}
  /\ nvs.kv[<<Ord("a")>>] = <<Ord("1")>> /\ nvs.kv[<<Ord("b")>>] = <<Ord("2")>>

-----------------------------------------------------------------------------
\* the key of a pair: what stands before its first '='; its value: what follows it
KeyOf(pair) == Take(pair, SpanLen(pair, Bytes \ {EQ}, 1))
ValueOf(pair) == Drop(pair, Len(KeyOf(pair)) + 1)

\* the pairs of the last request's body that have a '='
Pairs == SelectSeq(Tokens(req.body), LAMBDA p : ~Bare(p))

\* the last request was read and handled to its response
Handled == req.recv_ok /\ Len(req.body) > 0 /\ LastOp(req.effects) # "abort"

StoredAs(key, value) ==
  \E i \in DOMAIN req.effects :
    /\ req.effects[i].op = "save"
    /\ req.effects[i].key = key
    /\ req.effects[i].value = value

\* C13 as stated: a pair whose key is longer than 31 characters or whose value is
\* longer than 127 characters is stored, under the first 31 characters of the key
\* and with the first 127 characters of the value
C13_LongPairsTruncated ==
  Handled =>
    \A i \in DOMAIN Pairs :
      LET key == KeyOf(Pairs[i])
          value == ValueOf(Pairs[i])
      IN (Len(key) > KEY_WIDTH \/ Len(value) > VALUE_WIDTH) =>
           StoredAs(Take(key, KEY_WIDTH), url_decode(Take(value, VALUE_WIDTH)))

(* C13, amended: a pair whose value is longer than 127 characters (and whose    *)
(* key has 1 to 31 characters) is not rejected: it is stored under its key with *)
(* the decoded first 127 characters of the value.  A pair whose key is longer   *)
(* than 31 characters is not stored at all, neither under the truncated key nor *)
(* under the whole one: it is skipped without an error response, and the other  *)
(* pairs of the body are stored as usual                                        *)
C13_LongValueTruncatedLongKeySkipped ==
  Handled =>
    /\ \A i \in DOMAIN Pairs :
         LET key == KeyOf(Pairs[i])
             value == ValueOf(Pairs[i])
         IN /\ (Len(key) \in 1..KEY_WIDTH /\ Len(value) > VALUE_WIDTH) =>
                 /\ StoredAs(key, url_decode(Take(value, VALUE_WIDTH)))
                 /\ ~StoredAs(key, url_decode(value))
            /\ Len(key) > KEY_WIDTH =>
                 \A j \in DOMAIN req.effects :
                   req.effects[j].op = "save" =>
                     /\ req.effects[j].key # Take(key, KEY_WIDTH)
                     /\ req.effects[j].key # key
    /\ Len(SavedPairs(req.effects)) =
         Cardinality({i \in DOMAIN Pairs : Len(KeyOf(Pairs[i])) \in 1..KEY_WIDTH
                                           /\ ValueOf(Pairs[i]) # <<>>})
    /\ \A j \in DOMAIN req.effects : req.effects[j].op # "httpd_resp_send_500"

\* a body with a 32-character key and a 128-character value was handled: the first
\* pair was skipped, the second stored with 127 characters
C13_Witness ==
  /\ req.body = B_longboth /\ req.recv_ok
  /\ LastOp(req.effects) = "send_redirect"
  /\ DOMAIN nvs.kv = {<<Ord("w")>>}
  /\ nvs.kv[<<Ord("w")>>] = Rep("y", VALUE_WIDTH)

-----------------------------------------------------------------------------
(* Percent-decoding as the spec describes it *)

HexDigits == Str(<<"0","1","2","3","4","5","6","7","8","9","A","B","C","D","E","F">>)

\* a lower-case letter as its upper-case letter
Upper(c) == IF c \in Ord("a")..Ord("z") THEN c - Ord("a") + Ord("A") ELSE c

IsHex(c) == \E k \in DOMAIN HexDigits : HexDigits[k] = Upper(c)

HexValue(c) == (CHOOSE k \in DOMAIN HexDigits : HexDigits[k] = Upper(c)) - 1

\* every %XX with two hexadecimal digits becomes the byte XX, every '+' a space,
\* every other character stays
RECURSIVE Decoded(_)
Decoded(v) ==
  IF v = <<>> THEN <<>>
  ELSE IF Len(v) >= 3 /\ v[1] = PCT /\ IsHex(v[2]) /\ IsHex(v[3])
       THEN <<16 * HexValue(v[2]) + HexValue(v[3])>> \o Decoded(Drop(v, 3))
  ELSE IF v[1] = PLUS THEN <<32>> \o Decoded(Drop(v, 1))
  ELSE <<v[1]>> \o Decoded(Drop(v, 1))

S_v == <<Ord("v")>>
S_a_b_c == Str(<<"a", " ", "b", " ", "c">>)

\* the last request was one of the decode bodies, read and handled
DecodeRequest == Handled /\ req.body \in DecodeBodies

\* C14 as stated: url_decode turns every well-formed %XX into the byte XX, every '+'
\* into a space and copies the rest, so that a%20b+c decodes to "a b c", and the
\* value POST /save stores is the decoded form of the submitted value
C14_StoredValueIsDecoded ==
  DecodeRequest =>
    LET v == ValueOf(req.body) IN
    /\ url_decode(v) = Decoded(v)
    /\ Decoded(ValueOf(B_example)) = S_a_b_c
    /\ v # <<>> => StoredAs(S_v, Decoded(v))

(* C14, amended: url_decode turns every well-formed %XX (hexadecimal digits of  *)
(* either case) into the byte XX, every '+' into a space and copies every other *)
(* character, a '%' without two hexadecimal digits included, so that a%20b+c    *)
(* decodes to "a b c"; the value POST /save stores is the decoded form of the   *)
(* submitted value up to the first NUL byte of it: a %00 ends the stored value. *)
(* A pair with an empty value is not stored                                     *)
C14_StoredValueIsDecodedCString ==
  DecodeRequest =>
    LET v == ValueOf(req.body) IN
    /\ url_decode(v) = Decoded(v)
    /\ Decoded(ValueOf(B_example)) = S_a_b_c
    /\ IF v = <<>> THEN SavedPairs(req.effects) = <<>>
       ELSE SavedPairs(req.effects) = <<[key |-> S_v, value |-> CStr(Decoded(v))]>>

\* v=a%20b+c was handled and "a b c" is in the store
C14_Witness ==
  /\ req.body = B_example /\ req.recv_ok
  /\ AllSavesOk(req.effects)
  /\ S_v \in DOMAIN nvs.kv /\ nvs.kv[S_v] = S_a_b_c
  /\ nvs_flash = nvs

-----------------------------------------------------------------------------
(* What the spec says GET / serves *)

Stored(store, key) == store.ns /\ key \in DOMAIN store.kv

\* the stored led_color, the default colour when the key is absent
SpecColor(store) ==
  IF Stored(store, S_led_color) THEN store.kv[S_led_color] ELSE DEFAULT_COLOR

\* the template with its first placeholder replaced by color, the template itself
\* when it has no placeholder
Rendered(template, color) ==
  LET pos == strstr(template, PLACEHOLDER)
  IN IF pos = 0 THEN template
     ELSE Take(template, pos - 1) \o color \o Drop(template, pos - 1 + Len(PLACEHOLDER))

\* C15 as stated: GET / answers with the template in which the first placeholder
\* only is replaced by the stored led_color (the default colour when the key is
\* absent), and with the unchanged template when it has no placeholder, for every
\* template length
C15_IndexRendersTemplate ==
  resp.handler = "index" =>
    /\ resp.status = "200"
    /\ resp.body = Rendered(resp.template, SpecColor(nvs))

-----------------------------------------------------------------------------
\* the colour index_get_handler has in led_color[8] after load_setting
LoadedColor(store) ==
  IF Stored(store, S_led_color) /\ Len(store.kv[S_led_color]) < COLOR_BUF
  THEN store.kv[S_led_color] ELSE DEFAULT_COLOR

\* C16 as stated: GET / never writes beyond its 1024-byte render buffer; when
\* prefix + colour + suffix + terminator exceed the buffer, nothing is written past
\* its end and the request is answered with a server error
C16_RenderOverflowIsServerError ==
  /\ ~resp.oob
  /\ (/\ resp.handler = "index"
      /\ strstr(resp.template, PLACEHOLDER) # 0
      /\ Len(Rendered(resp.template, LoadedColor(nvs))) + 1 > RENDER_BUF)
       => resp.status = "500"

-----------------------------------------------------------------------------
\* the stored value of key, the empty string when the key is absent
SpecValue(store, key) == IF Stored(store, key) THEN store.kv[key] ELSE <<>>

\* C17 as stated: GET /settings.json returns the stored value of each of ssid, pass
\* and led_color, and the empty string for each of them that is absent
C17_SettingsJsonStoredOrEmpty ==
  resp.handler = "settings" =>
    resp.body = SettingsJson(SpecValue(nvs, S_ssid), SpecValue(nvs, S_pass),
                             SpecValue(nvs, S_led_color))

\* the stored value of key when it fits a buffer of size bytes with its terminator,
\* otherwise what the buffer was initialised with
Shown(store, key, size, initial) ==
  IF Stored(store, key) /\ Len(store.kv[key]) + 1 <= size THEN store.kv[key] ELSE initial

(* C17, amended: GET /settings.json returns for ssid and for pass the stored    *)
(* value when it fits the handler's buffer (at most 31 and 63 characters) and   *)
(* the empty string when the key is absent or the value is longer; for          *)
(* led_color it returns the stored value when it has at most 7 characters and   *)
(* the default colour #23A55A when the key is absent or the value is longer.    *)
(* The response is complete: it is shorter than the handler's 256-byte buffer   *)
C17_SettingsJsonFittingOrInitial ==
  resp.handler = "settings" =>
    /\ resp.status = "200"
    /\ resp.body = SettingsJson(Shown(nvs, S_ssid, SSID_BUF, <<>>),
                                Shown(nvs, S_pass, PASS_BUF, <<>>),
                                Shown(nvs, S_led_color, COLOR_BUF, DEFAULT_COLOR))
    /\ Len(resp.body) < JSON_BUF
    /\ ~resp.oob

\* settings.json of a store with ssid MyNet, a pass of 64 characters and no
\* led_color: MyNet, the empty string and the default colour
C17_Witness ==
  /\ resp.handler = "settings"
  /\ nvs = StoreOf(Absent, S_MyNet, Rep("x", PASS_BUF))
  /\ resp.body = SettingsJson(S_MyNet, <<>>, DEFAULT_COLOR)

-----------------------------------------------------------------------------
\* the connected state, with the readiness notifier fired
ConnectedState == sta_connected /\ Callbacks(trace) > 0

\* access-point mode with the portal running
PortalState == wifi_mode = "AP" /\ server # NULL_HANDLE /\ listeners = {server}

-----------------------------------------------------------------------------
\* what handling a got-address event in the current state appends to the trace, and
\* the connectivity variables it leaves
AfterGotIp == wifi_event_handler(Ram, GOT_IP)
GotIpCalls == SubSeq(AfterGotIp.trace, Len(trace) + 1, Len(AfterGotIp.trace))

FallbackPortalRunning == wifi_mode = "AP" /\ server # NULL_HANDLE /\ server \in listeners

-----------------------------------------------------------------------------
\* Before(calls, a, b): the call a, with that result, precedes a call of b
Before(calls, a, b) ==
  \E i \in DOMAIN calls : \E j \in DOMAIN calls :
    calls[i] = a /\ i < j /\ calls[j].fn = b

\* after a successful nvs_open the last call is nvs_close, and no handle stays open
Released(calls) ==
  /\ OpenHandles(calls) = 0
  /\ calls[1] = Call("nvs_open", ESP_OK) => calls[Len(calls)].fn = "nvs_close"

\* the values and buffer sizes save_setting and load_setting are applied to in the
\* current state
SomeValues == {S_MyNet, <<>>, Rep("x", PASS_BUF)}
SomeSizes == {COLOR_BUF, SSID_BUF, PASS_BUF}

\* C20 as stated: save_setting returns ESP_OK only if the value was written and
\* nvs_commit completed with success before the return; after a successful nvs_open
\* every path (write failure, commit failure, success) ends with nvs_close, and no
\* handle is open when save_setting or load_setting has returned
C20_SuccessMeansCommitted ==
  /\ \A i \in DOMAIN req.effects :
        (req.effects[i].op = "save" /\ req.effects[i].err = ESP_OK) =>
          req.effects[i].commit = ESP_OK
  /\ \A key \in SettingKeys, value \in SomeValues, io \in StoreIO :
        LET r == save_setting([nvs |-> nvs, flash |-> nvs_flash], key, value, io)
        IN /\ Released(r.calls)
           /\ r.err = ESP_OK =>
                /\ Before(r.calls, Call("nvs_set_str", ESP_OK), "nvs_commit")
                /\ \E c \in {ESP_OK, ESP_FAIL} :
                     Before(r.calls, Call("nvs_commit", c), "nvs_close")
                /\ r.nvs.kv[key] = value
  /\ \A key \in SettingKeys, size \in SomeSizes, io \in LoadIO :
        Released(load_setting(nvs, key, <<>>, size, io).calls)

-----------------------------------------------------------------------------
\* the pairs of a body with key k whose save_setting returned ESP_OK, by position
Written(pairs, effects, k) ==
  {j \in DOMAIN pairs : pairs[j].key = k /\ effects[j].err = ESP_OK}

Last(S) == CHOOSE j \in S : \A i \in S : i <= j

\* the same request with every storage call succeeding
AllOk(body) ==
  save_post_handler([nvs |-> nvs, flash |-> nvs_flash], body, TRUE,
                    [i \in DOMAIN Form[body] |-> "ok"], "continue")

\* a store has the same entry, or the same absence of one, for key k as another
SameEntry(a, b, k) ==
  /\ HasKey(a, k) <=> HasKey(b, k)
  /\ HasKey(a, k) => a.kv[k] = b.kv[k]

(* C21: a save_setting that fails during POST /save is dropped in silence: the  *)
(* handler passes every pair of the body to save_setting, in order; a key whose *)
(* writes all failed keeps the value it had, a key with a successful write has  *)
(* the value of the last one, durably once its commit is done; keys not in the  *)
(* body are untouched; the response and the restart decision are those of the   *)
(* same request with every write succeeding                                     *)
C21_FailedWriteDropped ==
  [][(http_pc = "idle" /\ req' # req /\ req'.recv_ok /\ Len(req'.body) > 0) =>
       LET pairs == Form[req'.body]
           e == req'.effects
           n == Len(pairs)
           ok == AllOk(req'.body)
       IN /\ SavesFirst(e, pairs)
          /\ Len(e) = n + 1
          /\ e[n + 1] = ok.effects[n + 1]
          /\ http_pc' = (IF ok.reboot_needed THEN "delay" ELSE "idle")
          /\ pc' = "run"
          /\ \A i \in DOMAIN pairs :
               LET k == pairs[i].key
                   w == Written(pairs, e, k)
               IN IF w = {}
                  THEN SameEntry(nvs', nvs, k)
                  ELSE /\ HasKey(nvs', k) /\ nvs'.kv[k] = pairs[Last(w)].value
                       /\ e[Last(w)].commit = ESP_OK =>
                            HasKey(nvs_flash', k) /\ nvs_flash'.kv[k] = pairs[Last(w)].value
          /\ \A k \in DOMAIN nvs.kv \cup DOMAIN nvs'.kv :
               (\A i \in DOMAIN pairs : pairs[i].key # k) => SameEntry(nvs', nvs, k)]_vars

\* a credential save of which every write failed has restarted the device, and the
\* passphrase stored before it, too long for the boot to use, is still the stored one
C21_Witness ==
  /\ req.body = B_creds /\ req.recv_ok
  /\ Len(req.effects) = 5
  /\ req.effects[1].err # ESP_OK /\ req.effects[2].err # ESP_OK
  /\ LastOp(req.effects) = "esp_restart"
  /\ pc = "run"
  /\ HasKey(nvs, S_pass) /\ nvs.kv[S_pass] = Rep("x", PASS_BUF)
  /\ ~HasKey(nvs, S_ssid)

-----------------------------------------------------------------------------
\* the connectivity state: static server, static sta_retry_count, static sta_connected
Connectivity == <<server, sta_retry_count, sta_connected>>

\* a step of the event task: wifi_event_handler handles one event
HandlerStep ==
  /\ pc = "run" /\ pc' = "run"
  /\ req' = req /\ resp' = resp
  /\ Len(trace') > Len(trace)
  /\ trace'[Len(trace) + 1] \in Events

\* a step of the main task: app_main runs from the reset to its return
BootStep == pc = "boot" /\ pc' = "run"

\* a step of the HTTP server task: a request is handled and the device runs on
HttpStep == pc = "run" /\ pc' = "run" /\ (req' # req \/ resp' # resp)

AccessPointBoot == <<"app_main", "start_ap", "config_portal_start">>

\* C22 as stated: the portal handle, the retry counter and the connected flag are
\* written only by the network event handler; app_main and the HTTP handlers write
\* none of them
C22_OnlyHandlerWrites ==
  [][(pc' = "run" /\ Connectivity' # Connectivity) => HandlerStep]_vars

(* C22, amended: the retry counter and the connected flag are written only by  *)
(* the network event handler.  The portal handle is written by the event       *)
(* handler and also by app_main: the boot without credentials calls start_ap in *)
(* the main task, which sets the handle.  In such a boot the event handler      *)
(* never touches the connectivity state afterwards (no station event arrives in *)
(* access-point mode), and a boot with credentials writes none of the three in  *)
(* app_main, so the two contexts never access them in the same boot; the HTTP   *)
(* handlers write none of them                                                  *)
C22_HandlerWritesBootSetsHandle ==
  [][pc' = "run" =>
       /\ Connectivity' # Connectivity =>
            \/ HandlerStep
            \/ /\ BootStep
               /\ trace' = AccessPointBoot
               /\ sta_retry_count' = sta_retry_count
               /\ sta_connected' = sta_connected
               /\ server = NULL_HANDLE /\ server' # NULL_HANDLE
       /\ (BootStep /\ trace' # AccessPointBoot) =>
            /\ Connectivity' = Connectivity
            /\ trace' = <<"app_main", "start_sta">>
       /\ (pc = "run" /\ SubSeq(trace, 1, 2) = <<"app_main", "start_ap">>) =>
            /\ Connectivity' = Connectivity
            /\ trace' = trace
       /\ HttpStep => Connectivity' = Connectivity /\ trace' = trace]_vars

\* after a boot without credentials, in which app_main set the portal handle, a client
\* joined the access point and a request was handled; only app_main wrote the handle
C22_Witness ==
  /\ pc = "run"
  /\ trace = AccessPointBoot
  /\ server # NULL_HANDLE
  /\ ap_clients > 0
  /\ req # NoRequest /\ req.recv_ok
  /\ http_pc = "idle"

-----------------------------------------------------------------------------
\* a step that stays inside one boot
SameBoot == pc = "run" /\ pc' = "run"

(* C23: the retry counter lies in 0..CONFIG_MAX_STA_RETRIES and is zero when   *)
(* app_main starts and when it returns; within a boot it never decreases, it   *)
(* changes only on a step that handles a station-disconnected event with the   *)
(* counter below the maximum, by exactly +1, and every other step (the other   *)
(* events, a disconnect at the maximum with its start_ap, a got-address event  *)
(* with its connection_success_callback, a request) leaves it unchanged        *)
C23_RetryCounterFrame ==
  [][/\ sta_retry_count \in 0..CONFIG_MAX_STA_RETRIES
     /\ sta_retry_count' \in 0..CONFIG_MAX_STA_RETRIES
     /\ pc = "boot" => sta_retry_count = 0
     /\ BootStep => sta_retry_count' = 0
     /\ SameBoot =>
          /\ sta_retry_count' >= sta_retry_count
          /\ IF Discs(trace') = Discs(trace) + 1 /\ sta_retry_count < CONFIG_MAX_STA_RETRIES
             THEN sta_retry_count' = sta_retry_count + 1
             ELSE sta_retry_count' = sta_retry_count
          /\ sta_retry_count' # sta_retry_count =>
               /\ HandlerStep
               /\ trace'[Len(trace) + 1] = DISC
               /\ ApStarts(trace') = ApStarts(trace)
               /\ Callbacks(trace') = Callbacks(trace)]_vars

\* a boot that got an address, then lost the link for good: the counter went up to
\* the maximum through the got-address event and its callback, start_ap kept it
\* there, and an access-point client event came after
C23_Witness ==
  /\ pc = "run"
  /\ sta_retry_count = CONFIG_MAX_STA_RETRIES
  /\ Discs(trace) = CONFIG_MAX_STA_RETRIES + 1
  /\ GotIps(trace) >= 1
  /\ Callbacks(trace) >= 1
  /\ ApStarts(trace) = 1
  /\ ap_clients > 0

-----------------------------------------------------------------------------
\* POST /save stored both credentials, each of at most VALUE_WIDTH bytes, and the
\* last request stored its pairs and restarted the device
CredentialsSaved ==
  /\ HasKey(nvs, S_ssid) /\ Len(nvs.kv[S_ssid]) <= VALUE_WIDTH
  /\ HasKey(nvs, S_pass) /\ Len(nvs.kv[S_pass]) <= VALUE_WIDTH
  /\ nvs_flash = nvs
  /\ Handled /\ AllSavesOk(req.effects) /\ LastOp(req.effects) = "esp_restart"

(* C24: a credential pair that POST /save accepted and persisted, each value   *)
(* of at most 127 bytes, is found by the next boot whose reads do not fail:    *)
(* app_main starts station mode with exactly the saved ssid and passphrase,    *)
(* also when the ssid has 32 or more bytes or the passphrase 64 or more        *)
C24_SavedCredentialsUsed ==
  [][(/\ BootStep
      /\ CredentialsSaved
      /\ ReadErr(S_ssid)' # ESP_FAIL /\ ReadErr(S_pass)' # ESP_FAIL) =>
       /\ wifi_mode' = "STA"
       /\ Count(trace', "start_ap") = 0
       /\ sta_config' = [ssid |-> nvs.kv[S_ssid], pass |-> nvs.kv[S_pass]]]_vars

-----------------------------------------------------------------------------
\* the records of users that are in a voice channel
InChannel(list) == {i \in DOMAIN list : list[i].channel_id # <<>>}

-----------------------------------------------------------------------------
\* url_decode after k iterations of its loop on src
DecodeAt(src, k) == decode_loop([src |-> src, i |-> 1, dst |-> <<>>], k)

\* the iteration of url_decode that follows st consumes at least as many characters
\* of src as it writes bytes to dst
StepShrinks(st) ==
  LET nx == decode_step(st)
  IN /\ Len(nx.dst) - Len(st.dst) <= nx.i - st.i
     /\ nx.i <= Len(st.src) + 1

\* the values sscanf stored for the pairs of the request, before decoding
ParsedValues ==
  LET t == Tokens(req.body)
  IN {sscanf(t[i]).value : i \in {j \in DOMAIN t : sscanf(t[j]).n = 2}}

(* C26: for every value save_post_handler parsed from a request, each iteration *)
(* of url_decode consumes at least as many characters as it writes, the output  *)
(* is no longer than the input, and, the parsed value having at most 127        *)
(* characters, the output with its terminator fits the 128 bytes of decoded     *)
C26_DecodeFitsBuffer ==
  Handled =>
    \A v \in ParsedValues :
      /\ Len(v) <= VALUE_WIDTH
      /\ \A k \in 0..Len(v) : StepShrinks(DecodeAt(v, k))
      /\ Len(url_decode(v)) <= Len(v)
      /\ Len(url_decode(v)) + 1 <= DECODED_BUF

\* a value of more than 127 characters was submitted, 127 of them were parsed and
\* decoded, and the output filled decoded[] to its last byte
C26_Witness ==
  /\ Handled /\ req.body = B_longval
  /\ ParsedValues = {Rep("y", VALUE_WIDTH)}
  /\ Len(url_decode(Rep("y", VALUE_WIDTH))) + 1 = DECODED_BUF
  /\ StoredAs(S_v, Rep("y", VALUE_WIDTH))

====
